---- MODULE Spec2Model ----
(***************************************************************************)
(* Model of the IPC legal chatbot's retrieval core:                        *)
(*   src/src/data_processing.py  parse_punishment_years,                   *)
(*                               load_data_structured                      *)
(*   src/src/rag_pipeline.py     retrieve_relevant_ipc_hybrid              *)
(*                                                                         *)
(* Strings are sequences of lexemes (tokens).  A token is a TLA+ string    *)
(* standing for exactly those characters: a digit is one character, " "    *)
(* is one blank, "\n" a line break, a word is a run of letters.  The       *)
(* regular expressions of the source are translated to scanners over       *)
(* such sequences.  The alphabet is chosen so that no token is a proper    *)
(* character prefix of another one, except "year" of "years", which the    *)
(* scanners treat explicitly.                                              *)
(***************************************************************************)
EXTENDS Integers, Sequences, FiniteSets, TLC

VARIABLES
    \* ---- arguments of retrieve_relevant_ipc_hybrid and process-wide state
    query,                  \* the user query
    k_initial,              \* candidate pool size of the vector search
    k_final,                \* result size after re-ranking
    structured_ipc_data,    \* the corpus records (load_data_structured)
    metadata,               \* the texts behind the index, in index order
    faiss_ntotal,           \* number of vectors held by the index
    \* ---- one call of retrieve_relevant_ipc_hybrid
    pc,                     \* position of the call
    min_years_threshold,    \* threshold of the numeric filter, or None
    filtered_by_condition,  \* the texts that pass the numeric filter
    sentence_pairs,         \* the documents paired with the query for scoring
    keyword_matches,
    retrieved_sections,     \* the exact-identifier matches
    semantic_matches,
    combined_results_for_reranking,
    top_k,                  \* the slice bound of the pending re-ranking
    result,                 \* the returned list, or NoResult
    events,                 \* advisories and service calls of this call, in order
    \* ---- the caller and the external services
    calls,                  \* number of calls started
    first_result,           \* what the first call returned
    known_scores,           \* answers the scoring service has given
    known_search,           \* answer the index has given for the query
    \* ---- parse_punishment_years
    text_description,
    years

vars == <<query, k_initial, k_final, structured_ipc_data, metadata, faiss_ntotal,
          pc, min_years_threshold, filtered_by_condition, sentence_pairs,
          keyword_matches, retrieved_sections,
          semantic_matches, combined_results_for_reranking, top_k, result,
          events, calls, first_result, known_scores, known_search,
          text_description, years>>

-----------------------------------------------------------------------------
(* Bounds of the model *)

MaxChunks == 3
MaxQueryChunks == 4
MaxListLen == 2
MaxCorpus == 2
MaxK == 2
MaxScore == 1
MaxCalls == 2

-----------------------------------------------------------------------------
(* Python values *)

\* Python's None where an int is expected (years are never negative)
None == -1

\* "no list was returned" (the call is running, or it raised)
NoResult == <<"<no result>">>

-----------------------------------------------------------------------------
(* Characters and tokens *)

Digits == {"0", "1", "2", "3", "5", "7"}

IsDigit(t) == t \in Digits

DigitVal(t) ==
    CASE t = "0" -> 0 [] t = "1" -> 1 [] t = "2" -> 2
      [] t = "3" -> 3 [] t = "5" -> 5 [] t = "7" -> 7

\* \s of the re module
IsSpace(t) == t \in {" ", "\n"}

\* str.lower() on one token
Lower(t) ==
    CASE t = "IPC" -> "ipc"
      [] t = "A" -> "a"
      [] t = "Punishment:" -> "punishment:"
      [] t = "Greater" -> "greater"
      [] t = "Years" -> "years"
      [] t = "Life" -> "life"
      [] t = "Child" -> "child"
      [] OTHER -> t

\* str.upper() on one token
Upper(t) ==
    CASE t = "ipc" -> "IPC"
      [] t = "a" -> "A"
      [] t = "years" -> "YEARS"
      [] t = "year" -> "YEAR"
      [] t = "x" -> "X"
      [] t = "is" -> "IS"
      [] OTHER -> t

\* [A-Z] under re.IGNORECASE: a token made of letters only
IsAlpha(t) ==
    Lower(t) \in {"ipc", "a", "x", "is", "to", "years", "year", "life", "death",
                  "child", "minor", "murder", "greater", "than", "what",
                  "imprisonment", "for", "nan"}

\* str.lower() on a string
LowerStr(s) == [i \in 1..Len(s) |-> Lower(s[i])]

\* str.upper() on a string
UpperStr(s) == [i \in 1..Len(s) |-> Upper(s[i])]

\* a is a character prefix of b
TokPrefix(a, b) == a = b \/ (a = "year" /\ b = "years")

\* str.startswith
StartsWith(s, p) ==
    /\ Len(p) <= Len(s)
    /\ \A i \in 1..Len(p) :
         IF i < Len(p) THEN s[i] = p[i] ELSE TokPrefix(p[i], s[i])

\* len(str): the number of characters
RECURSIVE CharLen(_)
CharLen(s) == IF s = <<>> THEN 0 ELSE Len(Head(s)) + CharLen(Tail(s))

\* end (exclusive) of the greedy \d+ that starts at i
RECURSIVE DigitsEnd(_, _)
DigitsEnd(s, i) ==
    IF i <= Len(s) /\ IsDigit(s[i]) THEN DigitsEnd(s, i + 1) ELSE i

\* end (exclusive) of the greedy \s* that starts at i
RECURSIVE SkipSpaces(_, _)
SkipSpaces(s, i) ==
    IF i <= Len(s) /\ IsSpace(s[i]) THEN SkipSpaces(s, i + 1) ELSE i

\* end (exclusive) of the greedy [A-Z]* that starts at i
RECURSIVE AlphaEnd(_, _)
AlphaEnd(s, i) ==
    IF i <= Len(s) /\ IsAlpha(s[i]) THEN AlphaEnd(s, i + 1) ELSE i

\* int() of the digits s[i..j-1]
RECURSIVE IntOf(_, _, _)
IntOf(s, i, j) ==
    IF j <= i THEN 0 ELSE IntOf(s, i, j - 1) * 10 + DigitVal(s[j - 1])

\* (?:years|year) under re.IGNORECASE
IsYearUnit(t) == Lower(t) \in {"years", "year"}

\* s[i:j] of Python, 1-based and j exclusive
Slice(s, i, j) == IF j <= i THEN <<>> ELSE SubSeq(s, i, j - 1)

\* the elements of a list
Elems(s) == {s[i] : i \in 1..Len(s)}

\* all lists over S of length at most n
SeqsUpTo(S, n) == UNION {[1..m -> S] : m \in 0..n}

\* the concatenation of a list of strings
RECURSIVE Flatten(_)
Flatten(ss) == IF ss = <<>> THEN <<>> ELSE Head(ss) \o Flatten(Tail(ss))

\* max() of a non-empty set of integers
MaxOf(S) == CHOOSE m \in S : \A n \in S : n <= m

-----------------------------------------------------------------------------
(* data_processing.py: parse_punishment_years *)

NoMatch == [ok |-> FALSE, a |-> 0, b |-> 0, end |-> 0]

\* re.search(r'Punishment:\s*(.*)', text, re.IGNORECASE): the index of the
\* first "Punishment:", or 0
RECURSIVE PunishmentSearch(_, _)
PunishmentSearch(s, i) ==
    IF i > Len(s) THEN 0
    ELSE IF Lower(s[i]) = "punishment:" THEN i
    ELSE PunishmentSearch(s, i + 1)

\* end (exclusive) of the greedy .* that starts at i ('.' matches no line break)
RECURSIVE DotStarEnd(_, _)
DotStarEnd(s, i) ==
    IF i <= Len(s) /\ s[i] # "\n" THEN DotStarEnd(s, i + 1) ELSE i

\* str.strip()
RECURSIVE Strip(_)
Strip(s) ==
    IF s = <<>> THEN s
    ELSE IF IsSpace(s[1]) THEN Strip(Tail(s))
    ELSE IF IsSpace(s[Len(s)]) THEN Strip(SubSeq(s, 1, Len(s) - 1))
    ELSE s

\* punishment_match.group(1).strip(), or "" without a match
PunishmentText(s) ==
    LET i == PunishmentSearch(s, 1)
    IN  IF i = 0 THEN <<>>
        ELSE LET b == SkipSpaces(s, i + 1)
             IN  Strip(Slice(s, b, DotStarEnd(s, b)))

\* (\d+)\s*(?:to|-)\s*(\d+)\s*(?:years|year) tried at position i
RangeMatchAt(s, i) ==
    IF i > Len(s) \/ ~IsDigit(s[i]) THEN NoMatch
    ELSE
      LET e1 == DigitsEnd(s, i)
          p  == SkipSpaces(s, e1)
      IN  IF p > Len(s) \/ Lower(s[p]) \notin {"to", "-"} THEN NoMatch
          ELSE
            LET q == SkipSpaces(s, p + 1)
            IN  IF q > Len(s) \/ ~IsDigit(s[q]) THEN NoMatch
                ELSE
                  LET e2 == DigitsEnd(s, q)
                      u  == SkipSpaces(s, e2)
                  IN  IF u > Len(s) \/ ~IsYearUnit(s[u]) THEN NoMatch
                      ELSE [ok |-> TRUE, a |-> IntOf(s, i, e1),
                            b |-> IntOf(s, q, e2), end |-> u + 1]

\* re.findall of the range pattern from position i on: the list of (A, B)
RECURSIVE FindAllRanges(_, _)
FindAllRanges(s, i) ==
    IF i > Len(s) THEN <<>>
    ELSE LET m == RangeMatchAt(s, i)
         IN  IF m.ok THEN <<<<m.a, m.b>>>> \o FindAllRanges(s, m.end)
             ELSE FindAllRanges(s, i + 1)

\* (\d+)\s*(?:years|year) tried at position i
YearMatchAt(s, i) ==
    IF i > Len(s) \/ ~IsDigit(s[i]) THEN NoMatch
    ELSE
      LET e1 == DigitsEnd(s, i)
          u  == SkipSpaces(s, e1)
      IN  IF u > Len(s) \/ ~IsYearUnit(s[u]) THEN NoMatch
          ELSE [ok |-> TRUE, a |-> IntOf(s, i, e1), b |-> 0, end |-> u + 1]

\* re.findall of the single pattern from position i on: the list of N
RECURSIVE FindAllYears(_, _)
FindAllYears(s, i) ==
    IF i > Len(s) THEN <<>>
    ELSE LET m == YearMatchAt(s, i)
         IN  IF m.ok THEN <<m.a>> \o FindAllYears(s, m.end)
             ELSE FindAllYears(s, i + 1)

\* 'life' in punishment_text.lower(), 'death' in punishment_text.lower()
Mentions(s, w) == \E i \in 1..Len(s) : Lower(s[i]) = w

\* the first bound that is found instead of the largest
RangesFirst(year_ranges) == year_ranges[1][1]

\* max(int(yr) for r in year_ranges for yr in r)
RangesMax(year_ranges) ==
    MaxOf(UNION {{year_ranges[i][1], year_ranges[i][2]} : i \in 1..Len(year_ranges)})

LifeYears == 999
DeathYears == 1000

\* the (years, punishment_text) that parse_punishment_years returns
ParsePunishmentYears(s) ==
    LET punishment_text == PunishmentText(s)
        year_ranges == FindAllRanges(punishment_text, 1)
        year_matches == FindAllYears(punishment_text, 1)
        found == IF year_ranges # <<>> THEN RangesMax(year_ranges)
                 ELSE IF year_matches # <<>> THEN year_matches[1]
                 ELSE None
    IN  [years |->
            IF found # None THEN found
            ELSE IF Mentions(punishment_text, "life") THEN LifeYears
            ELSE IF Mentions(punishment_text, "death") THEN DeathYears
            ELSE None,
         punishment_text |-> punishment_text]

-----------------------------------------------------------------------------
(* data_processing.py: load_data_structured *)

\* re.search(r'IPC\s*(\d+[A-Z]*)', s, re.IGNORECASE) from position i on:
\* ok, a = start of group(0), b = start of group(1), end (exclusive) of both
RECURSIVE IpcSearch(_, _)
IpcSearch(s, i) ==
    IF i > Len(s) THEN NoMatch
    ELSE IF Lower(s[i]) = "ipc"
            /\ SkipSpaces(s, i + 1) <= Len(s)
            /\ IsDigit(s[SkipSpaces(s, i + 1)])
         THEN LET d == SkipSpaces(s, i + 1)
              IN  [ok |-> TRUE, a |-> i, b |-> d,
                   end |-> AlphaEnd(s, DigitsEnd(s, d))]
         ELSE IpcSearch(s, i + 1)

\* ipc_section_match.group(0).upper() if ipc_section_match else "UNKNOWN"
IpcSectionId(s) ==
    LET m == IpcSearch(s, 1)
    IN  IF m.ok THEN UpperStr(Slice(s, m.a, m.end)) ELSE <<"UNKNOWN">>

\* index of the first token from position i on that holds a ':', or 0
RECURSIVE ColonSearch(_, _)
ColonSearch(s, i) ==
    IF i > Len(s) THEN 0
    ELSE IF s[i] \in {":", "Punishment:", "punishment:"} THEN i
    ELSE ColonSearch(s, i + 1)

\* index of the first 'Punishment:' (as written) from position i on, or 0
RECURSIVE LabelSearch(_, _)
LabelSearch(s, i) ==
    IF i > Len(s) THEN 0
    ELSE IF s[i] = "Punishment:" THEN i
    ELSE LabelSearch(s, i + 1)

\* text.split(':', 1)[1].split('Punishment:', 1)[0].strip()
\*     if 'Punishment:' in text else text
DescriptionSummary(s) ==
    IF LabelSearch(s, 1) = 0 THEN s
    ELSE LET rest == Slice(s, ColonSearch(s, 1) + 1, Len(s) + 1)
             l == LabelSearch(rest, 1)
         IN  Strip(IF l = 0 THEN rest ELSE Slice(rest, 1, l))

MinTextLen == 20

\* "nan" in text_content.lower() or len(text_content) < 20
Skipped(s) == Mentions(s, "nan") \/ CharLen(s) < MinTextLen

\* the record appended for one line
StructuredRecord(s) ==
    [ipc_section_id |-> IpcSectionId(s),
     description_summary |-> DescriptionSummary(s),
     punishment_years |-> ParsePunishmentYears(s).years,
     original_text |-> s]

\* load_data_structured on the 'text' fields of the file's lines
RECURSIVE LoadDataStructured(_)
LoadDataStructured(lines) ==
    IF lines = <<>> THEN <<>>
    ELSE IF Skipped(Head(lines)) THEN LoadDataStructured(Tail(lines))
    ELSE <<StructuredRecord(Head(lines))>> \o LoadDataStructured(Tail(lines))

\* ipc_data_for_embeddings = [item["original_text"] for item in structured_ipc_data]
OriginalTexts(data) == [i \in 1..Len(data) |-> data[i].original_text]

-----------------------------------------------------------------------------
(* rag_pipeline.py: the pieces of retrieve_relevant_ipc_hybrid *)

\* the filter pattern with the unit required instead of optional
RECURSIVE FilterSearchUnit(_, _)
FilterSearchUnit(q, i) ==
    IF i + 4 > Len(q) THEN NoMatch
    ELSE IF /\ Lower(q[i]) = "greater"
            /\ q[i + 1] = " "
            /\ Lower(q[i + 2]) = "than"
            /\ q[i + 3] = " "
            /\ IsDigit(q[i + 4])
            /\ SkipSpaces(q, DigitsEnd(q, i + 4)) <= Len(q)
            /\ IsYearUnit(q[SkipSpaces(q, DigitsEnd(q, i + 4))])
         THEN [ok |-> TRUE, a |-> IntOf(q, i + 4, DigitsEnd(q, i + 4)), b |-> 0,
               end |-> SkipSpaces(q, DigitsEnd(q, i + 4)) + 1]
         ELSE FilterSearchUnit(q, i + 1)

\* re.search(r'greater than (\d+)\s*(?:years|year)?', query, re.IGNORECASE)
\* from position i on: ok, a = int(group(1))
RECURSIVE FilterSearch(_, _)
FilterSearch(q, i) ==
    IF i + 4 > Len(q) THEN NoMatch
    ELSE IF /\ Lower(q[i]) = "greater"
            /\ q[i + 1] = " "
            /\ Lower(q[i + 2]) = "than"
            /\ q[i + 3] = " "
            /\ IsDigit(q[i + 4])
         THEN LET e == DigitsEnd(q, i + 4)
                  u == SkipSpaces(q, e)
              IN  [ok |-> TRUE, a |-> IntOf(q, i + 4, e), b |-> 0,
                   end |-> IF u <= Len(q) /\ IsYearUnit(q[u]) THEN u + 1 ELSE e]
         ELSE FilterSearch(q, i + 1)

\* punishment_years > threshold read as >=
FilteredByConditionGeq(data, threshold) ==
    OriginalTexts(
        SelectSeq(data, LAMBDA item : item.punishment_years # None
                                       /\ item.punishment_years >= threshold))

\* [item["original_text"] for item in structured_ipc_data
\*  if item["punishment_years"] is not None and item["punishment_years"] > threshold]
FilteredByCondition(data, threshold) ==
    OriginalTexts(
        SelectSeq(data, LAMBDA item : item.punishment_years # None
                                       /\ item.punishment_years > threshold))

\* 'child' in s.lower() or 'minor' in s.lower()
HasKeyword(s) == Mentions(s, "child") \/ Mentions(s, "minor")

\* the keyword matching block
KeywordMatches(q, data) ==
    IF HasKeyword(q)
    THEN SelectSeq(OriginalTexts(data), LAMBDA t : HasKeyword(t))
    ELSE <<>>

\* f"IPC {match.group(1).upper()}"
SectionIdQuery(q, m) == <<"IPC", " ">> \o UpperStr(Slice(q, m.b, m.end))

\* the first text of the metadata that starts with the identifier, as a list
RECURSIVE FirstStartingWith(_, _)
FirstStartingWith(meta, id) ==
    IF meta = <<>> THEN <<>>
    ELSE IF StartsWith(LowerStr(Head(meta)), LowerStr(id)) THEN <<Head(meta)>>
    ELSE FirstStartingWith(Tail(meta), id)

\* the exact IPC section match block
ExactMatches(q, meta) ==
    LET m == IpcSearch(q, 1)
    IN  IF m.ok THEN FirstStartingWith(meta, SectionIdQuery(q, m)) ELSE <<>>

\* what faiss_index.search(query_embedding, k) can return as indices[0]: the k
\* nearest vectors, each once, nearest first, filled up with -1
SearchResults(ntotal, k) ==
    {r \in [1..k -> -1..(ntotal - 1)] :
        /\ \A i \in 1..k : (r[i] = -1) <=> (i > ntotal)
        /\ \A i, j \in 1..k : (i < j /\ r[i] # -1) => r[i] # r[j]}

\* the semantic search loop: metadata[idx] for each idx with 0 <= idx < len(metadata)
RECURSIVE SemanticMatches(_, _)
SemanticMatches(indices, meta) ==
    IF indices = <<>> THEN <<>>
    ELSE (IF 0 <= Head(indices) /\ Head(indices) < Len(meta)
          THEN <<meta[Head(indices) + 1]>> ELSE <<>>)
         \o SemanticMatches(Tail(indices), meta)

\* the loop over the concatenated lists with the set 'seen'
RECURSIVE Dedup(_, _)
Dedup(items, seen) ==
    IF items = <<>> THEN <<>>
    ELSE IF Head(items) \in seen THEN Dedup(Tail(items), seen)
    ELSE <<Head(items)>> \o Dedup(Tail(items), seen \cup {Head(items)})

\* the vector matches put first
MergeSemanticFirst(kw, ex, sem) == Dedup(sem \o ex \o kw, {})

\* combined_results_for_reranking
Merge(kw, ex, sem) == Dedup(kw \o ex \o sem, {})

\* the score the scoring service gave for a document
ScoreOf(scores, doc) == (CHOOSE p \in scores : p[1] = doc)[2]

\* one step of a stable insertion: d goes behind every score that is not lower
RECURSIVE InsertDesc(_, _, _)
InsertDesc(sorted, d, scores) ==
    IF sorted = <<>> THEN <<d>>
    ELSE IF ScoreOf(scores, Head(sorted)) >= ScoreOf(scores, d)
         THEN <<Head(sorted)>> \o InsertDesc(Tail(sorted), d, scores)
         ELSE <<d>> \o sorted

RECURSIVE SortFrom(_, _, _)
SortFrom(sorted, docs, scores) ==
    IF docs = <<>> THEN sorted
    ELSE SortFrom(InsertDesc(sorted, Head(docs), scores), Tail(docs), scores)

\* a sort whose order among equal scores changes from one call to the next
SortedByScoreUnstable(docs, scores) ==
    IF calls % 2 = 1 THEN SortFrom(<<>>, docs, scores)
    ELSE LET r == SortFrom(<<>>, [i \in 1..Len(docs) |-> docs[Len(docs) + 1 - i]], scores)
         IN  r

\* sorted(zip(docs, rerank_scores), key=lambda x: x[1], reverse=True): stable
SortedByScore(docs, scores) == SortFrom(<<>>, docs, scores)

\* the slice without its bound
TakeAll(docs, k) == docs

\* scored_documents[:k] for k >= 0
Take(docs, k) == Slice(docs, 1, (IF k < Len(docs) THEN k ELSE Len(docs)) + 1)

\* the slice bound of the numeric path
NumericTopK == 20

-----------------------------------------------------------------------------
(* The idle values of the variables a specification does not use *)

CallIdle ==
    /\ min_years_threshold = None
    /\ filtered_by_condition = <<>>
    /\ sentence_pairs = <<>>
    /\ keyword_matches = <<>>
    /\ retrieved_sections = <<>>
    /\ semantic_matches = <<>>
    /\ combined_results_for_reranking = <<>>
    /\ top_k = 0
    /\ result = NoResult
    /\ events = <<>>

ProcessIdle ==
    /\ k_initial = 1
    /\ k_final = 1
    /\ structured_ipc_data = <<>>
    /\ metadata = <<>>
    /\ faiss_ntotal = 0
    /\ calls = 0
    /\ first_result = NoResult
    /\ known_scores = {}
    /\ known_search = <<>>

ParseIdle ==
    /\ text_description = <<>>
    /\ years = None

-----------------------------------------------------------------------------
(* Specification Spec: calls of retrieve_relevant_ipc_hybrid *)

\* texts of the data file
D302 == <<"IPC", " ", "3", "0", "2", ":", " ", "murder", " ",
          "Punishment:", " ", "death">>
D30 == <<"IPC", " ", "3", "0", ":", " ", "child", " ",
         "Punishment:", " ", "3", " ", "to", " ", "7", " ", "years">>
D302A == <<"IPC", " ", "3", "0", "2", "A", ":", " ", "minor", " ", "murder">>
DShort == <<"IPC", " ", "7">>

RawLines == {D302, D30, D302A, DShort}

\* a data file with more qualifying records than the numeric path returns
BigLines == [i \in 1..(NumericTopK + 1) |-> IF i % 2 = 1 THEN D302 ELSE D30]

Queries ==
    { <<"greater", " ", "than", " ", "7", " ", "years">>,
      <<"Greater", " ", "than", " ", "5">>,
      <<"Child", " ", "greater", " ", "than", " ", "7", " ", "years">>,
      <<"what", " ", "is", " ", "IPC", " ", "3", "0", "2">>,
      <<"ipc", "3", "0">>,
      <<"minor", " ", "IPC", " ", "3", "0", "2", "a">>,
      <<"murder">> }

Scores == 0..MaxScore

\* the state after initialize_rag_components built the index from the data file
InitProcess(lines) ==
    /\ structured_ipc_data = LoadDataStructured(lines)
    /\ metadata = OriginalTexts(LoadDataStructured(lines))
    /\ faiss_ntotal = Len(metadata)
    /\ k_initial \in (IF Len(lines) <= MaxCorpus THEN 1..MaxK ELSE {1})
    /\ k_final \in 0..MaxK

Init ==
    /\ query \in Queries
    /\ \E lines \in SeqsUpTo(RawLines, MaxCorpus) \cup {BigLines} : InitProcess(lines)
    /\ pc = "start"
    /\ calls = 0
    /\ first_result = NoResult
    /\ known_scores = {}
    /\ known_search = <<>>
    /\ CallIdle
    /\ ParseIdle

\* lines 132-137: the numeric filter is extracted from the query
StartCall ==
    /\ pc = "start"
    /\ calls < MaxCalls
    /\ calls' = calls + 1
    /\ LET m == FilterSearch(query, 1)
       IN  /\ min_years_threshold' = (IF m.ok THEN m.a ELSE None)
           /\ events' = (IF m.ok THEN <<"info">> ELSE <<>>)
    /\ pc' = "numeric_filter_check"
    /\ UNCHANGED <<query, k_initial, k_final, structured_ipc_data, metadata,
                   faiss_ntotal, filtered_by_condition, sentence_pairs,
                   keyword_matches, retrieved_sections, semantic_matches,
                   combined_results_for_reranking, top_k, result, first_result,
                   known_scores, known_search, text_description, years>>

\* the empty filter returned as the result
NumericFilterCheckNoFallback ==
    /\ pc = "numeric_filter_check"
    /\ IF min_years_threshold # None
       THEN LET f == FilteredByCondition(structured_ipc_data, min_years_threshold)
            IN  /\ filtered_by_condition' = f
                /\ events' = events
                /\ IF f # <<>>
                   THEN pc' = "numeric_path" /\ result' = result
                   ELSE pc' = "done" /\ result' = <<>>
       ELSE /\ pc' = "hybrid_path"
            /\ UNCHANGED <<filtered_by_condition, events, result>>
    /\ UNCHANGED <<query, k_initial, k_final, structured_ipc_data, metadata,
                   faiss_ntotal, min_years_threshold, sentence_pairs,
                   keyword_matches, retrieved_sections, semantic_matches,
                   combined_results_for_reranking, top_k, calls,
                   first_result, known_scores, known_search, text_description,
                   years>>

\* lines 135-149: the records are filtered; an empty filter falls back
NumericFilterCheck ==
    /\ pc = "numeric_filter_check"
    /\ IF min_years_threshold # None
       THEN LET f == FilteredByCondition(structured_ipc_data, min_years_threshold)
            IN  /\ filtered_by_condition' = f
                /\ IF f # <<>>
                   THEN pc' = "numeric_path" /\ events' = events
                   ELSE pc' = "hybrid_path" /\ events' = Append(events, "warning")
       ELSE /\ pc' = "hybrid_path"
            /\ UNCHANGED <<filtered_by_condition, events>>
    /\ UNCHANGED <<query, k_initial, k_final, structured_ipc_data, metadata,
                   faiss_ntotal, min_years_threshold, sentence_pairs,
                   keyword_matches, retrieved_sections, semantic_matches,
                   combined_results_for_reranking, top_k, result, calls,
                   first_result, known_scores, known_search, text_description,
                   years>>

\* lines 142-144: the filtered texts are paired with the query
NumericPath ==
    /\ pc = "numeric_path"
    /\ sentence_pairs' = filtered_by_condition
    /\ top_k' = NumericTopK
    /\ pc' = "rerank"
    /\ UNCHANGED <<query, k_initial, k_final, structured_ipc_data, metadata,
                   faiss_ntotal, min_years_threshold, filtered_by_condition,
                   keyword_matches, retrieved_sections, semantic_matches,
                   combined_results_for_reranking, result, events, calls,
                   first_result, known_scores, known_search, text_description,
                   years>>

\* the hybrid path that scores whatever the merge left, also nothing
HybridPathNoEmptyCheck ==
    /\ pc = "hybrid_path"
    /\ \E indices \in SearchResults(faiss_ntotal, k_initial) :
         /\ known_search \in {<<>>, indices}
         /\ known_search' = indices
         /\ keyword_matches' = KeywordMatches(query, structured_ipc_data)
         /\ retrieved_sections' = ExactMatches(query, metadata)
         /\ semantic_matches' = SemanticMatches(indices, metadata)
    /\ combined_results_for_reranking' =
           Merge(keyword_matches', retrieved_sections', semantic_matches')
    /\ events' = events \o <<"embed", "search">>
    /\ sentence_pairs' = combined_results_for_reranking'
    /\ top_k' = k_final
    /\ pc' = "rerank"
    /\ result' = result
    /\ UNCHANGED <<query, k_initial, k_final, structured_ipc_data, metadata,
                   faiss_ntotal, min_years_threshold, filtered_by_condition,
                   calls, first_result, known_scores, text_description, years>>

\* lines 151-189: keyword, exact and vector matches, merged; an empty merge
\* is returned, anything else is paired with the query
HybridPath ==
    /\ pc = "hybrid_path"
    /\ \E indices \in SearchResults(faiss_ntotal, k_initial) :
         /\ known_search \in {<<>>, indices}
         /\ known_search' = indices
         /\ keyword_matches' = KeywordMatches(query, structured_ipc_data)
         /\ retrieved_sections' = ExactMatches(query, metadata)
         /\ semantic_matches' = SemanticMatches(indices, metadata)
    /\ combined_results_for_reranking' =
           Merge(keyword_matches', retrieved_sections', semantic_matches')
    /\ events' = events \o <<"embed", "search">>
    /\ IF combined_results_for_reranking' = <<>>
       THEN /\ result' = <<>>
            /\ pc' = "done"
            /\ UNCHANGED <<sentence_pairs, top_k>>
       ELSE /\ sentence_pairs' = combined_results_for_reranking'
            /\ top_k' = k_final
            /\ pc' = "rerank"
            /\ result' = result
    /\ UNCHANGED <<query, k_initial, k_final, structured_ipc_data, metadata,
                   faiss_ntotal, min_years_threshold, filtered_by_condition,
                   calls, first_result, known_scores, text_description, years>>

\* line 171: embedding_model.encode raises, and the call with it
EncodeFails ==
    /\ pc = "hybrid_path"
    /\ keyword_matches' = KeywordMatches(query, structured_ipc_data)
    /\ retrieved_sections' = ExactMatches(query, metadata)
    /\ events' = Append(events, "embed")
    /\ pc' = "failed"
    /\ UNCHANGED <<query, k_initial, k_final, structured_ipc_data, metadata,
                   faiss_ntotal, min_years_threshold, filtered_by_condition,
                   sentence_pairs, semantic_matches,
                   combined_results_for_reranking, top_k, result, calls,
                   first_result, known_scores, known_search, text_description,
                   years>>

\* lines 145-147 and 190-192: the pairs are scored, sorted and cut
Rerank ==
    /\ pc = "rerank"
    /\ \E sc \in [Elems(sentence_pairs) -> Scores] :
         LET rerank_scores == {<<d, sc[d]>> : d \in Elems(sentence_pairs)}
         IN  /\ \A p \in known_scores :
                   p[1] \in Elems(sentence_pairs) => p \in rerank_scores
             /\ known_scores' = known_scores \cup rerank_scores
             /\ result' = Take(SortedByScore(sentence_pairs, rerank_scores), top_k)
    /\ events' = Append(events, "predict")
    /\ pc' = "done"
    /\ UNCHANGED <<query, k_initial, k_final, structured_ipc_data, metadata,
                   faiss_ntotal, min_years_threshold, filtered_by_condition,
                   sentence_pairs, keyword_matches, retrieved_sections,
                   semantic_matches, combined_results_for_reranking, top_k,
                   calls, first_result, known_search, text_description, years>>

\* lines 145 and 190: re_ranker_model.predict raises, and the call with it
PredictFails ==
    /\ pc = "rerank"
    /\ events' = Append(events, "predict")
    /\ pc' = "failed"
    /\ UNCHANGED <<query, k_initial, k_final, structured_ipc_data, metadata,
                   faiss_ntotal, min_years_threshold, filtered_by_condition,
                   sentence_pairs, keyword_matches, retrieved_sections,
                   semantic_matches, combined_results_for_reranking, top_k,
                   result, calls, first_result, known_scores, known_search,
                   text_description, years>>

\* app.py lines 43-65: the caller takes the outcome and asks the query again
NextQuery ==
    /\ pc \in {"done", "failed"}
    /\ calls < MaxCalls
    /\ first_result' = (IF calls = 1 THEN result ELSE first_result)
    /\ pc' = "start"
    /\ min_years_threshold' = None
    /\ filtered_by_condition' = <<>>
    /\ sentence_pairs' = <<>>
    /\ keyword_matches' = <<>>
    /\ retrieved_sections' = <<>>
    /\ semantic_matches' = <<>>
    /\ combined_results_for_reranking' = <<>>
    /\ top_k' = 0
    /\ result' = NoResult
    /\ events' = <<>>
    /\ UNCHANGED <<query, k_initial, k_final, structured_ipc_data, metadata,
                   faiss_ntotal, calls, known_scores, known_search,
                   text_description, years>>

Next ==
    \/ StartCall
    \/ NumericFilterCheck
    \/ NumericPath
    \/ HybridPath
    \/ EncodeFails
    \/ Rerank
    \/ PredictFails
    \/ NextQuery

Spec == Init /\ [][Next]_vars

-----------------------------------------------------------------------------
(* Specification SpecParse: parse_punishment_years on bounded texts *)

ParseChunks ==
    { <<"Punishment:">>, <<"punishment:">>, <<"3">>, <<"7">>, <<" ">>, <<"\n">>,
      <<"to">>, <<"-">>, <<"years">>, <<"year">>, <<"life">>, <<"Life">>,
      <<"death">>, <<"x">>,
      <<"3", " ", "to", " ", "7", " ", "years">>,
      <<"7", "-", "3", "Years">>,
      <<"5", " ", "years">>,
      <<"imprisonment", " ", "for", " ", "life">> }

ParseTexts == {Flatten(cs) : cs \in SeqsUpTo(ParseChunks, MaxChunks)}

InitParse ==
    /\ text_description \in ParseTexts
    /\ years = None
    /\ pc = "parse_in"
    /\ query = <<>>
    /\ ProcessIdle
    /\ CallIdle

\* years, punishment_text = parse_punishment_years(text_description)
ParseStep ==
    /\ pc = "parse_in"
    /\ years' = ParsePunishmentYears(text_description).years
    /\ pc' = "parse_out"
    /\ UNCHANGED <<query, k_initial, k_final, structured_ipc_data, metadata,
                   faiss_ntotal, min_years_threshold, filtered_by_condition,
                   sentence_pairs, keyword_matches,
                   retrieved_sections, semantic_matches,
                   combined_results_for_reranking, top_k, result, events, calls,
                   first_result, known_scores, known_search, text_description>>

NextParse == ParseStep

SpecParse == InitParse /\ [][NextParse]_vars

-----------------------------------------------------------------------------
(* Specification SpecFilter: the numeric filter on bounded queries *)

FilterChunks ==
    { <<"greater", " ", "than", " ">>, <<"Greater", " ", "than", " ">>,
      <<"greater">>, <<"than">>, <<" ">>, <<"\n">>, <<"5">>, <<"7">>,
      <<"years">>, <<"year">>, <<"x">> }

FilterQueries == {Flatten(cs) : cs \in SeqsUpTo(FilterChunks, MaxQueryChunks)}

InitFilter ==
    /\ query \in FilterQueries
    /\ structured_ipc_data = LoadDataStructured(<<D302, D30, D302A>>)
    /\ metadata = OriginalTexts(structured_ipc_data)
    /\ faiss_ntotal = Len(metadata)
    /\ k_initial = 1
    /\ k_final = 1
    /\ pc = "start"
    /\ calls = 0
    /\ first_result = NoResult
    /\ known_scores = {}
    /\ known_search = <<>>
    /\ CallIdle
    /\ ParseIdle

NextFilter ==
    \/ StartCall
    \/ NumericFilterCheck

SpecFilter == InitFilter /\ [][NextFilter]_vars

-----------------------------------------------------------------------------
(* Specification SpecMerge: the merge on bounded candidate lists *)

MergeDocs == {D302, D30, D302A}

InitMerge ==
    /\ keyword_matches \in SeqsUpTo(MergeDocs, MaxListLen)
    /\ retrieved_sections \in SeqsUpTo(MergeDocs, MaxListLen)
    /\ semantic_matches \in SeqsUpTo(MergeDocs, MaxListLen)
    /\ combined_results_for_reranking = <<>>
    /\ pc = "merge_in"
    /\ query = <<>>
    /\ min_years_threshold = None
    /\ filtered_by_condition = <<>>
    /\ sentence_pairs = <<>>
    /\ top_k = 0
    /\ result = NoResult
    /\ events = <<>>
    /\ ProcessIdle
    /\ ParseIdle

\* lines 179-184 on the three lists
MergeStep ==
    /\ pc = "merge_in"
    /\ combined_results_for_reranking' =
           Merge(keyword_matches, retrieved_sections, semantic_matches)
    /\ pc' = "merge_out"
    /\ UNCHANGED <<query, k_initial, k_final, structured_ipc_data, metadata,
                   faiss_ntotal, min_years_threshold, filtered_by_condition,
                   sentence_pairs, keyword_matches, retrieved_sections,
                   semantic_matches, top_k, result, events, calls, first_result,
                   known_scores, known_search, text_description, years>>

NextMerge == MergeStep

SpecMerge == InitMerge /\ [][NextMerge]_vars

-----------------------------------------------------------------------------
(* What the claims speak about, stated without the scanners of the model *)

Count(seq, x) == Cardinality({i \in 1..Len(seq) : seq[i] = x})

NoDuplicates(seq) == \A i, j \in 1..Len(seq) : i # j => seq[i] # seq[j]

FirstIndex(seq, x) ==
    CHOOSE i \in 1..Len(seq) : seq[i] = x /\ \A j \in 1..(i - 1) : seq[j] # x

MinOf(S) == CHOOSE m \in S : \A n \in S : m <= n

\* the distinct elements of a list, each at the place of its first occurrence
DistinctInOrder(all) ==
    LET firsts == {i \in 1..Len(all) : \A j \in 1..(i - 1) : all[j] # all[i]}
    IN  [p \in 1..Cardinality(firsts) |->
            all[CHOOSE i \in firsts : Cardinality({j \in firsts : j < i}) = p - 1]]

\* the place a document gets when the list is ordered by score, highest
\* first, equal scores in the order of the list
RankOf(docs, scores, i) ==
    1 + Cardinality({j \in 1..Len(docs) :
            \/ ScoreOf(scores, docs[j]) > ScoreOf(scores, docs[i])
            \/ ScoreOf(scores, docs[j]) = ScoreOf(scores, docs[i]) /\ j < i})

Ranked(docs, scores) ==
    [p \in 1..Len(docs) |-> docs[CHOOSE i \in 1..Len(docs) : RankOf(docs, scores, i) = p]]

FirstK(docs, k) == [p \in 1..(IF k < Len(docs) THEN k ELSE Len(docs)) |-> docs[p]]

\* a maximal run of digits starts at i
RunStart(s, i) == IsDigit(s[i]) /\ (i = 1 \/ ~IsDigit(s[i - 1]))

\* where the run of digits that starts at i stops
RunStop(s, i) ==
    CHOOSE e \in (i + 1)..(Len(s) + 1) :
        /\ \A k \in i..(e - 1) : IsDigit(s[k])
        /\ e = Len(s) + 1 \/ ~IsDigit(s[e])

\* the first position from i on that holds no white space
GapStop(s, i) ==
    CHOOSE p \in i..(Len(s) + 1) :
        /\ \A k \in i..(p - 1) : IsSpace(s[k])
        /\ p = Len(s) + 1 \/ ~IsSpace(s[p])

NumberAt(s, i) == IntOf(s, i, RunStop(s, i))

\* a unit 'years' or 'year' follows the number at i
UnitFollows(s, i) ==
    LET u == GapStop(s, RunStop(s, i))
    IN  u <= Len(s) /\ Lower(s[u]) \in {"years", "year"}

\* the second number of a range 'A <sep> B years' whose A is at i, or 0
RangeSecond(s, i, seps) ==
    LET p == GapStop(s, RunStop(s, i))
    IN  IF p <= Len(s) /\ Lower(s[p]) \in seps
        THEN LET q == GapStop(s, p + 1)
             IN  IF q <= Len(s) /\ IsDigit(s[q]) /\ UnitFollows(s, q) THEN q ELSE 0
        ELSE 0

RangeStarts(s, seps) ==
    {i \in 1..Len(s) : RunStart(s, i) /\ RangeSecond(s, i, seps) # 0}

RangeBounds(s, seps) ==
    UNION {{NumberAt(s, i), NumberAt(s, RangeSecond(s, i, seps))} :
           i \in RangeStarts(s, seps)}

SingleStarts(s) == {i \in 1..Len(s) : RunStart(s, i) /\ UnitFollows(s, i)}

HasClause(s) == \E i \in 1..Len(s) : Lower(s[i]) = "punishment:"

\* the 'Punishment:' clause: what follows the first label up to the line's end
ClauseOf(s) ==
    LET l == MinOf({i \in 1..Len(s) : Lower(s[i]) = "punishment:"})
        b == GapStop(s, l + 1)
        e == MinOf({k \in b..(Len(s) + 1) : k = Len(s) + 1 \/ s[k] = "\n"})
    IN  [k \in 1..(e - b) |-> s[b + k - 1]]

ClauseMentions(c, w) == w \in {Lower(c[i]) : i \in 1..Len(c)}

\* 'greater than N' stands at i
GreaterThanAt(q, i) ==
    /\ i + 4 <= Len(q)
    /\ Lower(q[i]) = "greater" /\ q[i + 1] = " "
    /\ Lower(q[i + 2]) = "than" /\ q[i + 3] = " "
    /\ IsDigit(q[i + 4])

PhraseStarts(q) == {i \in 1..Len(q) : GreaterThanAt(q, i)}

PhraseWithUnitStarts(q) ==
    {i \in 1..Len(q) : GreaterThanAt(q, i) /\ UnitFollows(q, i + 4)}

Qualifying(n) ==
    {i \in 1..Len(structured_ipc_data) :
        /\ structured_ipc_data[i].punishment_years # None
        /\ structured_ipc_data[i].punishment_years > n}

Before(a, b) ==
    \E i, j \in 1..Len(events) : i < j /\ events[i] = a /\ events[j] = b

Happened(e) == \E i \in 1..Len(events) : events[i] = e

\* the section identifier a text starts with, in capitals, or the empty string
LeadingId(t) ==
    LET m == IpcSearch(t, 1)
    IN  IF m.ok /\ m.a = 1 THEN UpperStr(Slice(t, m.b, m.end)) ELSE <<>>

\* the section identifier the query names, in capitals, or the empty string
QueryId(q) ==
    LET m == IpcSearch(q, 1)
    IN  IF m.ok THEN UpperStr(Slice(q, m.b, m.end)) ELSE <<>>

-----------------------------------------------------------------------------
(* The claims *)

\* C1: when the numeric filter is active with threshold N and some record has
\* punishment_years > N, the returned list is not empty, each of its texts is
\* the original_text of a record with punishment_years > N, and no keyword,
\* exact-identifier or vector candidate was produced.
C1_NumericOverride ==
    (pc = "done" /\ min_years_threshold # None
       /\ Qualifying(min_years_threshold) # {})
    => /\ result # <<>>
       /\ result # NoResult
       /\ \A k \in 1..Len(result) :
            \E i \in Qualifying(min_years_threshold) :
                structured_ipc_data[i].original_text = result[k]
       /\ keyword_matches = <<>>
       /\ retrieved_sections = <<>>
       /\ semantic_matches = <<>>
       /\ ~Happened("search")

\* C1 happens: the query names a keyword and threshold 7, the corpus holds a
\* record of exactly 7 years and one above, and only the latter is returned.
C1_Witness ==
    /\ pc = "done"
    /\ min_years_threshold = 7
    /\ HasKeyword(query)
    /\ OriginalTexts(structured_ipc_data) = <<D30, D302>>
    /\ result = <<D302>>

\* C2 as amended: when the filter is active and no record has
\* punishment_years > N, the filter yields nothing, the 'no matching
\* sections' advisory is issued before the hybrid path runs, the result is
\* the first k_final of the merged keyword, exact-identifier and vector
\* candidates ordered by score, and it is not empty when the merged
\* candidates are not empty and k_final >= 1.
C2_FallbackToHybrid ==
    (pc = "done" /\ min_years_threshold # None
       /\ Qualifying(min_years_threshold) = {})
    => /\ filtered_by_condition = <<>>
       /\ Before("warning", "search")
       /\ combined_results_for_reranking =
            DistinctInOrder(keyword_matches \o retrieved_sections \o semantic_matches)
       /\ IF combined_results_for_reranking = <<>>
          THEN result = <<>>
          ELSE result = FirstK(Ranked(combined_results_for_reranking, known_scores),
                               k_final)
       /\ (combined_results_for_reranking # <<>> /\ k_final >= 1) => result # <<>>

\* C2 happens: the filter matched no record and the hybrid path returned texts.
C2_Witness ==
    /\ pc = "done"
    /\ min_years_threshold = 7
    /\ OriginalTexts(structured_ipc_data) = <<D30, D302A>>
    /\ Happened("warning")
    /\ Len(result) = 2

\* C2 as stated: as above, and the result is not empty whenever the merged
\* candidates are not empty.
C2_Original ==
    (pc = "done" /\ min_years_threshold # None
       /\ Qualifying(min_years_threshold) = {})
    => /\ filtered_by_condition = <<>>
       /\ Before("warning", "search")
       /\ combined_results_for_reranking # <<>> => result # <<>>

\* C3: the merged list holds every distinct text of the keyword, exact and
\* vector lists exactly once and nothing else, in the order of the first
\* occurrences in keyword ++ exact ++ vector.
C3_MergeDedup ==
    pc = "merge_out"
    => LET all == keyword_matches \o retrieved_sections \o semantic_matches
           m == combined_results_for_reranking
       IN  /\ Elems(m) = Elems(all)
           /\ NoDuplicates(m)
           /\ \A i, j \in 1..Len(m) :
                i < j => FirstIndex(all, m[i]) < FirstIndex(all, m[j])

\* C3 happens: the lists overlap, one of them repeats a text.
C3_Witness ==
    /\ pc = "merge_out"
    /\ keyword_matches = <<D30, D30>>
    /\ retrieved_sections = <<D302>>
    /\ semantic_matches = <<D302A, D30>>
    /\ combined_results_for_reranking = <<D30, D302, D302A>>

\* C4 as amended: the list the re-ranking step returns holds only documents
\* of the list it was given, none more often than there, in the order of
\* non-increasing score, and has at most k_final elements on the hybrid path
\* and at most 20 on the numeric path.
C4_RerankOutput ==
    (pc = "done" /\ Happened("predict"))
    => /\ \A k \in 1..Len(result) :
            Count(result, result[k]) <= Count(sentence_pairs, result[k])
       /\ \A i, j \in 1..Len(result) :
            i < j => ScoreOf(known_scores, result[i]) >= ScoreOf(known_scores, result[j])
       /\ Len(result) <= (IF filtered_by_condition # <<>> THEN NumericTopK ELSE k_final)

\* C4 happens: the numeric path had 21 documents to rank and returned 20.
C4_Witness ==
    /\ pc = "done"
    /\ Happened("predict")
    /\ Len(sentence_pairs) = NumericTopK + 1
    /\ Len(result) = NumericTopK
    /\ k_final < NumericTopK

\* C4 as stated: as above, with at most k_final elements on both paths.
C4_Original ==
    (pc = "done" /\ Happened("predict"))
    => /\ \A k \in 1..Len(result) :
            Count(result, result[k]) <= Count(sentence_pairs, result[k])
       /\ \A i, j \in 1..Len(result) :
            i < j => ScoreOf(known_scores, result[i]) >= ScoreOf(known_scores, result[j])
       /\ Len(result) <= k_final

\* C5: the returned list never holds the same document text twice, on the
\* numeric path as on the hybrid path.
C5_NoDuplicateTexts ==
    pc = "done" => NoDuplicates(result)

C7_FilterActive ==
    pc \in {"numeric_filter_check", "numeric_path", "hybrid_path"}
    => IF PhraseStarts(query) # {}
       THEN /\ min_years_threshold = NumberAt(query, MinOf(PhraseStarts(query)) + 4)
            /\ Happened("info")
       ELSE /\ min_years_threshold = None
            /\ filtered_by_condition = <<>>
            /\ events = <<>>
            /\ pc # "numeric_path"

\* C7 happens: 'greater than 5' without a unit switched the filter on.
C7_Witness ==
    /\ pc = "numeric_path"
    /\ query = <<"Greater", " ", "than", " ", "5">>
    /\ min_years_threshold = 5
    /\ filtered_by_condition = <<D302, D30>>

\* C7 as stated: the filter is active exactly when the query holds 'greater
\* than N' followed by 'years' or 'year', with the N of the first such phrase
\* as threshold; otherwise it is inactive and no record is filtered.
C7_Original ==
    pc \in {"numeric_filter_check", "numeric_path", "hybrid_path"}
    => IF PhraseWithUnitStarts(query) # {}
       THEN min_years_threshold =
                NumberAt(query, MinOf(PhraseWithUnitStarts(query)) + 4)
       ELSE /\ min_years_threshold = None
            /\ filtered_by_condition = <<>>
            /\ pc # "numeric_path"

\* the years the amended rule of C8 gives for a text
SeverityRule(s) ==
    IF ~HasClause(s) THEN None
    ELSE LET c == ClauseOf(s)
         IN  IF RangeStarts(c, {"to", "-"}) # {}
                THEN MaxOf(RangeBounds(c, {"to", "-"}))
             ELSE IF SingleStarts(c) # {}
                THEN NumberAt(c, MinOf(SingleStarts(c)))
             ELSE IF ClauseMentions(c, "life") THEN 999
             ELSE IF ClauseMentions(c, "death") THEN 1000
             ELSE None

\* C8 as amended: without a 'Punishment:' clause the years are null; else
\* with ranges 'A to B years' or 'A-B years' they are the largest bound of
\* all ranges; else with an 'N years' they are the first such N; else a
\* clause that mentions 'life' gives 999; else one that mentions 'death'
\* gives 1000; else null.
C8_SeverityRule ==
    pc = "parse_out" => years = SeverityRule(text_description)

\* C8 happens: 'Punishment: 3 to 7 years' gave 7.
C8_Witness ==
    /\ pc = "parse_out"
    /\ text_description = <<"Punishment:", " ", "3", " ", "to", " ", "7", " ", "years">>
    /\ years = 7

\* C8 as stated: null without a clause; else the largest bound of the
\* 'A to B years' ranges; else the first 'N years'; else 999 for a clause
\* that mentions 'life' and 1000 for a clause that mentions 'death'; else null.
C8_Original ==
    pc = "parse_out"
    => IF ~HasClause(text_description) THEN years = None
       ELSE LET c == ClauseOf(text_description)
            IN  IF RangeStarts(c, {"to"}) # {}
                   THEN years = MaxOf(RangeBounds(c, {"to"}))
                ELSE IF SingleStarts(c) # {}
                   THEN years = NumberAt(c, MinOf(SingleStarts(c)))
                ELSE /\ ClauseMentions(c, "life") => years = 999
                     /\ ClauseMentions(c, "death") => years = 1000
                     /\ (~ClauseMentions(c, "life") /\ ~ClauseMentions(c, "death"))
                           => years = None

\* C9: the exact-identifier matcher contributes at most one document: none
\* when the query names no identifier, and, when the query names X and a text
\* of the metadata has the leading identifier X, the first such text.
C9_ExactIdentifier ==
    Happened("search")
    => /\ Len(retrieved_sections) <= 1
       /\ QueryId(query) = <<>> => retrieved_sections = <<>>
       /\ LET same == {i \in 1..Len(metadata) : LeadingId(metadata[i]) = QueryId(query)}
          IN  (QueryId(query) # <<>> /\ same # {})
                 => retrieved_sections = <<metadata[MinOf(same)]>>

\* the steps of a call, and the caller's step to the next call
CallSteps ==
    { <<"start", "numeric_filter_check">>,
      <<"numeric_filter_check", "numeric_path">>,
      <<"numeric_filter_check", "hybrid_path">>,
      <<"numeric_path", "rerank">>,
      <<"hybrid_path", "rerank">>,
      <<"hybrid_path", "done">>,
      <<"hybrid_path", "failed">>,
      <<"rerank", "done">>,
      <<"rerank", "failed">>,
      <<"done", "start">>,
      <<"failed", "start">> }

\* C10: a call goes start -> numeric_filter_check -> numeric_path or
\* hybrid_path -> rerank -> done; it asks the re-ranking model at most once,
\* once when the path has candidates and never when the merged hybrid
\* candidates are empty, where it returns the empty list; a failed embedding
\* or re-ranking call is not repeated and returns no list.
C10_CallProtocol ==
    [][ /\ <<pc, pc'>> \in CallSteps
        /\ Count(events', "predict") <= 1
        /\ Count(events', "embed") <= 1
        /\ pc' = "done"
             => /\ result' # NoResult
                /\ Count(events', "predict") = (IF sentence_pairs' # <<>> THEN 1 ELSE 0)
                /\ (Happened("search")' /\ combined_results_for_reranking' = <<>>)
                      => (result' = <<>> /\ ~Happened("predict")')
        /\ pc' = "failed" => result' = NoResult
        /\ pc = "failed" => (calls' = calls /\ events' = <<>>) ]_vars

\* C10 happens: the hybrid path merged nothing and returned the empty list.
C10_Witness ==
    /\ pc = "done"
    /\ Happened("search")
    /\ combined_results_for_reranking = <<>>
    /\ result = <<>>
    /\ ~Happened("predict")

====
